---- MODULE Spec2Model ----
(***************************************************************************)
(* Beam search decoder of parlai/core/torch_agent.py (class Beam), and     *)
(* the dialog history of class TorchAgent.                                 *)
(*                                                                         *)
(* Spec has one Beam object, SpecPair two of them called in turn,          *)
(* SpecConfig a Beam of any width fed matrices of two vocabulary sizes,    *)
(* SpecAgent one TorchAgent.  Rows of the trellis are functions over    *)
(* the slots 0..beam_size-1; the row of timestep t is element t+1 of       *)
(* all_scores / outputs and element t of bookkeep (there is no            *)
(* backpointer row for timestep 0).  Scores are integers: a finite score   *)
(* is a small non-positive integer, -NEAR_INF and its multiples stand for  *)
(* the float values -1e20, -2e20, ...                                      *)
(***************************************************************************)
EXTENDS Integers, Sequences, FiniteSets, TLC

\* ---------------------------------------------------------------- bounds
MaxBeam == 3
MaxSteps == 3
MaxCells == 6
MaxMinLength == 2
MaxMinNBest == 2
MaxBlockNgram == 2
\* TorchAgent: calls of observe / get_dialog_history, largest history_size
MaxTurns == 2
MaxHistorySize == 2
\* two beams: advance calls per beam
MaxPairSteps == 2
MaxPairBeam == 2
\* a caller that changes the vocabulary: widest beam
MaxConfigBeam == 1

\* ------------------------------------------------------- program constants
PAD == 0
BOS == 1
EOS == 2
\* stands for the float 1e20: larger than the magnitude of any finite score
NEAR_INF == 1000
\* the unset value of eos_top_ts
None == -1
\* the vocabulary holds the special tokens only: pad, bos and eos
VocSize == EOS + 1

VARIABLES
    \* constructor parameters
    beam_size, min_length, min_n_best, block_ngram,
    \* fields of the Beam object
    scores, all_scores, bookkeep, outputs, finished,
    eos_top, eos_top_ts, n_best_counter,
    \* the caller's matrix as the last advance call left it (<< >> before)
    softmax_probs,
    \* history: the matrix as the caller passed it to the last advance call
    passed,
    \* history: completed advance calls; check_finished synthesized a record
    n_advance, synthesized,
    \* TorchAgent: opt['history_size'], opt['person_tokens']
    history_size, add_person_tokens,
    \* TorchAgent: self.history, self.observation, self.replies
    history, observation, replies,
    \* history: calls of observe / get_dialog_history made, the call at
    \* which the current episode began, what the last call appended to
    \* self.history, the reply the last observe got from last_reply
    turn, episode_start, appended, reply_used,
    \* a second Beam object: the record of its parameters and fields
    other,
    \* history: the calls made on the Beam object held by the variables
    \* above, and what torch.topk has returned so far, input by input
    inputs, topk_seen,
    \* the caller: the vocabulary sizes of the matrices it feeds to advance
    voc_sizes

config == <<beam_size, min_length, min_n_best, block_ngram>>
beam == <<scores, all_scores, bookkeep, outputs, finished,
          eos_top, eos_top_ts, n_best_counter>>
vars == <<config, beam, softmax_probs, passed, n_advance, synthesized>>
agent_config == <<history_size, add_person_tokens>>
agent == <<history, observation, replies>>
agent_vars == <<agent_config, agent, turn, episode_start, appended, reply_used>>
pair_vars == <<other, inputs, topk_seen>>
caller_vars == <<voc_sizes>>
all_vars == <<vars, agent_vars, pair_vars, caller_vars>>

Slots == 0 .. (beam_size - 1)
Tokens == 0 .. (VocSize - 1)

\* the distributions fed to advance: every row prefers one token (score 0)
\* and gives all others the same lower score; the matrix has a row per
\* slot, over one of the caller's vocabularies.
DistRows(voc_size) ==
    {[v \in 0 .. (voc_size - 1) |-> IF v = p THEN 0 ELSE -1] :
        p \in 0 .. (voc_size - 1)}
Dists == UNION {[Slots -> DistRows(voc_size)] : voc_size \in voc_sizes}

\* softmax_probs.size(-1)
Voc(probs) == Cardinality(DOMAIN probs[0])

\* ------------------------------------------------------------- arithmetic
IsInf(a) == a <= -NEAR_INF

\* float addition of a log-probability and a cumulative score: a finite
\* addend is below the resolution of a value of magnitude NEAR_INF and is
\* absorbed by it.
FAdd(a, b) ==
    IF IsInf(a) /\ IsInf(b) THEN a + b
    ELSE IF IsInf(a) THEN a
    ELSE IF IsInf(b) THEN b
    ELSE a + b

\* ------------------------------------------------------------ construction
\* Beam.__init__
BeamInit ==
    /\ beam_size \in 0 .. MaxBeam
    /\ min_length \in {0, MaxMinLength}
    /\ min_n_best \in 1 .. MaxMinNBest
    /\ block_ngram \in 0 .. MaxBlockNgram
    /\ scores = [s \in Slots |-> 0]
    /\ all_scores = << [s \in Slots |-> 0] >>
    /\ bookkeep = << >>
    /\ outputs = << [s \in Slots |-> BOS] >>
    /\ finished = << >>
    /\ eos_top = FALSE
    /\ eos_top_ts = None
    /\ n_best_counter = 0
    /\ softmax_probs = << >>
    /\ passed = << >>
    /\ n_advance = 0
    /\ synthesized = FALSE

\* ------------------------------------------------------- TorchAgent: values
\* self.observation before the first observe and after reset
NoObservation == [present |-> FALSE]
\* the reply None, and a reply that is a text
NoReply == [some |-> FALSE]
Some(text) == [some |-> TRUE, text |-> text]
\* self.replies without the key 'batch_reply'
NoReplies == [state |-> "absent"]

\* one line of text: the call it came with, what it is (the text of a
\* message, a label, a model reply, a reply handed to get_dialog_history),
\* its number, and the person tokens put in front of it. A text is a
\* non-empty sequence of lines.
Line(t, kind, n) == [turn |-> t, kind |-> kind, n |-> n, tok |-> << >>]

\* TorchAgent.__init__
AgentInit ==
    /\ history_size \in -1 .. MaxHistorySize
    /\ add_person_tokens \in BOOLEAN
    /\ history = << >>
    /\ observation = NoObservation
    /\ replies = NoReplies
    /\ turn = 0
    /\ episode_start = 0
    /\ appended = << >>
    /\ reply_used = NoReply

\* no second Beam object
NoBeam == [present |-> FALSE]

\* a Beam, beside an agent with the default options that is never called
Init ==
    /\ BeamInit
    /\ beam_size >= 1
    /\ voc_sizes = {VocSize}
    /\ AgentInit
    /\ history_size = -1
    /\ add_person_tokens = FALSE
    /\ other = NoBeam
    /\ inputs = << >>
    /\ topk_seen = {}

\* ------------------------------------------------------------------ replay
HypothesisTail(ts, hypid, score, tokenid) ==
    [timestep |-> ts, hypid |-> hypid, score |-> score, tokenid |-> tokenid]

\* a replay that stays in the same slot instead of following the backpointer
RECURSIVE ReplayFromSameSlot(_, _)
ReplayFromSameSlot(ts, hypid) ==
    LET rec == HypothesisTail(ts, hypid, all_scores[ts + 1][hypid],
                              outputs[ts + 1][hypid])
    IN  IF ts = 0 THEN << rec >>
        ELSE << rec >> \o ReplayFromSameSlot(ts - 1, hypid)

\* the replay loop shared by get_hyp_from_finished and
\* get_partial_hyp_from_tail: the records of the cells on the backpointer
\* path from (ts, hypid) down to timestep 0, last cell first.
RECURSIVE ReplayFrom(_, _)
ReplayFrom(ts, hypid) ==
    LET rec == HypothesisTail(ts, hypid, all_scores[ts + 1][hypid],
                              outputs[ts + 1][hypid])
    IN  IF ts = 0 THEN << rec >>
        ELSE << rec >> \o ReplayFrom(ts - 1, bookkeep[ts][hypid])

\* get_partial_hyp_from_tail(ts, hypid), as advance calls it (bookkeep is
\* not empty there).
GetPartialHypFromTail(ts, hypid) == ReplayFrom(ts, hypid)

Reverse(s) == [i \in 1 .. Len(s) |-> s[Len(s) + 1 - i]]

\* current_hypo of advance: the token ids of slot i's hypothesis in forward
\* order, without the start token of timestep 0.
CurrentHypo(i) ==
    LET hyp == Reverse(GetPartialHypFromTail(Len(outputs) - 1, i))
    IN  [k \in 1 .. (Len(hyp) - 1) |-> hyp[k + 1].tokenid]

\* find_ngrams(input_list, n): zip of the n shifted copies of the list; the
\* zip of no list at all (n = 0) is empty.
FindNgrams(input_list, n) ==
    IF n = 0 THEN << >>
    ELSE [k \in 1 .. (IF Len(input_list) >= n THEN Len(input_list) - n + 1 ELSE 0)
            |-> SubSeq(input_list, k, k + n - 1)]

\* the n-gram test of advance: for ng in range(block_ngram), some n-gram of
\* the slot's hypothesis is counted more than once.
NgramBlocked(i) ==
    /\ block_ngram > 0
    /\ \E ng \in 0 .. (block_ngram - 1) :
          LET ngrams == FindNgrams(CurrentHypo(i), ng)
          IN  \E a, b \in 1 .. Len(ngrams) : a < b /\ ngrams[a] = ngrams[b]

\* ----------------------------------------------------------------- advance
\* a length floor that still holds when min_length steps are complete
LengthFloorInclusive(probs) ==
    IF Len(all_scores) - 1 <= min_length
    THEN [h \in Slots |-> [probs[h] EXCEPT ![EOS] = -NEAR_INF]]
    ELSE probs
\* the caller's matrix after the length floor: while fewer than min_length
\* steps are complete, the end-token entry of every row is -NEAR_INF.
LengthFloor(probs) ==
    IF Len(all_scores) - 1 < min_length
    THEN [h \in Slots |-> [probs[h] EXCEPT ![EOS] = -NEAR_INF]]
    ELSE probs

\* a row that leaves the cumulative score of the slot out of the sum
BeamRowRaw(probs, i) ==
    IF NgramBlocked(i) \/ outputs[Len(outputs)][i] = EOS
    THEN [v \in DOMAIN probs[i] |-> -NEAR_INF]
    ELSE [v \in DOMAIN probs[i] |-> probs[i][v]]
\* the row of slot i in beam_scores on a later step.
BeamRow(probs, i) ==
    IF NgramBlocked(i) \/ outputs[Len(outputs)][i] = EOS
    THEN [v \in DOMAIN probs[i] |-> -NEAR_INF]
    ELSE [v \in DOMAIN probs[i] |-> FAdd(probs[i][v], scores[i])]

\* candidate scores that take every row into account on the first step too
FlatBeamScoresAllRows(probs) ==
    [x \in 0 .. (beam_size * Voc(probs) - 1) |->
        BeamRow(probs, x \div Voc(probs))[x % Voc(probs)]]
\* flatten_beam_scores: a function over the flat indices.
FlatBeamScores(probs) ==
    IF Len(bookkeep) = 0
    THEN [x \in 0 .. (Voc(probs) - 1) |-> probs[0][x]]
    ELSE [x \in 0 .. (beam_size * Voc(probs) - 1) |->
            BeamRow(probs, x \div Voc(probs))[x % Voc(probs)]]

SetMax(S) == CHOOSE m \in S : \A y \in S : y <= m
SetMin(S) == CHOOSE m \in S : \A y \in S : m <= y

\* a top-k that selects the k smallest entries (largest=False)
RECURSIVE TopKSmallest(_, _, _)
TopKSmallest(flat, remaining, k) ==
    IF k = 0 THEN { << >> }
    ELSE LET m == SetMin({flat[x] : x \in remaining})
             cands == {x \in remaining : flat[x] = m}
         IN  UNION { { << x >> \o rest :
                         rest \in TopKSmallest(flat, remaining \ {x}, k - 1) }
                     : x \in cands }

\* torch.topk(flat, k): the k largest entries in non-increasing order of
\* value; the library does not specify the order among equal values.
RECURSIVE TopK(_, _, _)
TopK(flat, remaining, k) ==
    IF k = 0 THEN { << >> }
    ELSE LET m == SetMax({flat[x] : x \in remaining})
             cands == {x \in remaining : flat[x] = m}
         IN  UNION { { << x >> \o rest : rest \in TopK(flat, remaining \ {x}, k - 1) }
                     : x \in cands }

\* the scores of the selected entries, stored in reverse slot order
BestScoresReversed(flat, best_idxs) ==
    [s \in Slots |-> flat[best_idxs[beam_size - s]]]
\* best_scores of torch.topk
BestScores(flat, best_idxs) == [s \in Slots |-> flat[best_idxs[s + 1]]]
\* backpointers taken from the flat index without the division
HypIdsFlat(best_idxs, voc_size) == [s \in Slots |-> best_idxs[s + 1]]
\* best_idxs / voc_size on a LongTensor is the integer quotient
HypIds(best_idxs, voc_size) ==
    [s \in Slots |-> best_idxs[s + 1] \div voc_size]
TokIds(best_idxs, voc_size) ==
    [s \in Slots |-> best_idxs[s + 1] % voc_size]

\* a bookkeeping loop that looks at slot 0 only
NewFinishedTopOnly(ts, toks, scs, hypid) ==
    IF toks[0] = EOS THEN << HypothesisTail(ts, 0, scs[0], EOS) >> ELSE << >>
\* the records the bookkeeping loop of advance appends, slot hypid onwards.
RECURSIVE NewFinished(_, _, _, _)
NewFinished(ts, toks, scs, hypid) ==
    IF hypid >= beam_size THEN << >>
    ELSE (IF toks[hypid] = EOS
          THEN << HypothesisTail(ts, hypid, scs[hypid], EOS) >>
          ELSE << >>) \o NewFinished(ts, toks, scs, hypid + 1)

\* a bookkeeping loop that keeps only the records of the current step
FinishedAfterReplace(fin) == IF Len(fin) > 0 THEN fin ELSE finished
FinishedAfter(fin) == finished \o fin
\* a finished counter kept on the class: one count for all Beam objects
CounterAfterShared(fin) ==
    (IF n_best_counter >= other.n_best_counter
     THEN n_best_counter ELSE other.n_best_counter) + Len(fin)
CounterAfter(fin) == n_best_counter + Len(fin)
\* a commit that stores no backpointer row for the first step
BookkeepAfterNoFirst(hyp_ids) ==
    IF Len(bookkeep) = 0 /\ Len(outputs) = 1 THEN bookkeep
    ELSE Append(bookkeep, hyp_ids)
BookkeepAfter(hyp_ids) == Append(bookkeep, hyp_ids)
\* a top flag that follows the last token of slot 0
EosTopAfterLast(tok_ids) == tok_ids[0] = EOS
EosTopAfter(tok_ids) == eos_top \/ tok_ids[0] = EOS
\* a top timestep that is assigned whenever slot 0 holds the end token
EosTopTsAfterLast(tok_ids, ts) ==
    IF tok_ids[0] = EOS THEN ts ELSE eos_top_ts
EosTopTsAfter(tok_ids, ts) ==
    IF tok_ids[0] = EOS /\ eos_top_ts = None THEN ts ELSE eos_top_ts

Advance ==
    /\ Len(bookkeep) < MaxSteps
    /\ beam_size * (Len(bookkeep) + 1) <= MaxCells
    /\ \E arg \in Dists :
         \* probs and flat are each computed once
         \E probs \in {LengthFloor(arg)} :
         IF beam_size = 0
         THEN \* softmax_probs[0] raises IndexError: the matrix has no row
              /\ softmax_probs' = probs
              /\ passed' = arg
              /\ UNCHANGED <<beam, n_advance>>
         ELSE \E flat \in {FlatBeamScores(probs)} :
             IF beam_size > Cardinality(DOMAIN flat)
             THEN \* torch.topk raises: k is out of range
                  /\ softmax_probs' = probs
                  /\ passed' = arg
                  /\ UNCHANGED <<beam, n_advance>>
             ELSE \E best_idxs \in TopK(flat, DOMAIN flat, beam_size) :
                  LET best_scores == BestScores(flat, best_idxs)
                      hyp_ids == HypIds(best_idxs, Voc(probs))
                      tok_ids == TokIds(best_idxs, Voc(probs))
                      ts == Len(outputs)
                      fin == NewFinished(ts, tok_ids, best_scores, 0)
                  IN  /\ softmax_probs' = probs
                      /\ passed' = arg
                      /\ scores' = best_scores
                      /\ all_scores' = Append(all_scores, best_scores)
                      /\ outputs' = Append(outputs, tok_ids)
                      /\ bookkeep' = BookkeepAfter(hyp_ids)
                      /\ finished' = FinishedAfter(fin)
                      /\ n_best_counter' = CounterAfter(fin)
                      /\ eos_top' = EosTopAfter(tok_ids)
                      /\ eos_top_ts' = EosTopTsAfter(tok_ids, ts)
                      /\ n_advance' = n_advance + 1
    /\ UNCHANGED <<config, synthesized>>

\* -------------------------------------------------------------------- done
\* a done that needs more than min_n_best finished hypotheses
DoneStrict == eos_top /\ n_best_counter > min_n_best
Done == eos_top /\ n_best_counter >= min_n_best

\* ------------------------------------------------------------------ queries
\* the result of a query that may raise: err is "none" or the exception
Returned(hyp) == [err |-> "none", hyp |-> hyp]
Raised(e) == [err |-> e, hyp |-> << >>]

\* a get_hyp_from_finished without the assertion on the tail's token id
GetHypFromFinishedOneAssert(tail) ==
    IF outputs[tail.timestep + 1][tail.hypid] # EOS THEN Raised("AssertionError")
    ELSE IF Len(bookkeep) = 0 THEN Raised("IndexError")
    ELSE Returned(ReplayFrom(tail.timestep, tail.hypid))

\* get_hyp_from_finished(hypothesis_tail): the two assertions, then the
\* replay loop; its last iteration (i = 0) reads bookkeep[-1], which raises
\* IndexError on an empty bookkeep.
GetHypFromFinished(tail) ==
    IF outputs[tail.timestep + 1][tail.hypid] # EOS THEN Raised("AssertionError")
    ELSE IF tail.tokenid # EOS THEN Raised("AssertionError")
    ELSE IF Len(bookkeep) = 0 THEN Raised("IndexError")
    ELSE Returned(ReplayFrom(tail.timestep, tail.hypid))

\* get_pretty_hypothesis(list_of_hypotails): the token ids of the records,
\* reversed
GetPrettyHypothesis(list_of_hypotails) ==
    Reverse([k \in 1 .. Len(list_of_hypotails) |->
                list_of_hypotails[k].tokenid])

\* no length penalty: every length is divided by 1
LengthPenaltyNone(current_length) == 10000
\* math.pow((1 + current_length) / 6, 0.65), in units of 1/10000
LengthPenalty(current_length) ==
    CASE current_length = 1 -> 4896
      [] current_length = 2 -> 6373
      [] current_length = 3 -> 7683
      [] current_length = 4 -> 8882
      [] current_length = 5 -> 10000
      [] current_length = 6 -> 11054
      [] current_length = 7 -> 12056
      [] current_length = 8 -> 13015
      [] OTHER -> 13938

\* a rescored score is the quotient num / den (den > 0), kept as a fraction
Quot(num, den) == [num |-> num, den |-> den]
QuotGreater(a, b) == a.num * b.den > b.num * a.den

\* an insertion for sorted(..., key=score) without reverse=True: ascending
InsertAsc(srted, r) ==
    LET higher == {j \in 1 .. Len(srted) : QuotGreater(srted[j].score, r.score)}
        pos == IF higher = {} THEN Len(srted) + 1 ELSE SetMin(higher)
    IN  SubSeq(srted, 1, pos - 1) \o << r >> \o SubSeq(srted, pos, Len(srted))

\* sorted(..., key=score, reverse=True) is stable: a record goes before the
\* first record of strictly lower score.
InsertDesc(srted, r) ==
    LET lower == {j \in 1 .. Len(srted) : QuotGreater(r.score, srted[j].score)}
        pos == IF lower = {} THEN Len(srted) + 1 ELSE SetMin(lower)
    IN  SubSeq(srted, 1, pos - 1) \o << r >> \o SubSeq(srted, pos, Len(srted))

RECURSIVE SortedDesc(_, _)
SortedDesc(seq, n) ==
    IF n = 0 THEN << >> ELSE InsertDesc(SortedDesc(seq, n - 1), seq[n])

\* the body of get_rescored_finished on the list fin of finished records;
\* n_best = None returns the whole list
RescoredFinishedOf(fin, n_best) ==
    LET rescored_finished ==
            [k \in 1 .. Len(fin) |->
                HypothesisTail(fin[k].timestep, fin[k].hypid,
                               Quot(fin[k].score,
                                    LengthPenalty(fin[k].timestep + 1)),
                               fin[k].tokenid)]
        srted == SortedDesc(rescored_finished, Len(rescored_finished))
    IN  IF n_best = None \/ n_best >= Len(srted) THEN srted
        ELSE SubSeq(srted, 1, n_best)

\* get_rescored_finished(n_best)
GetRescoredFinished(n_best) == RescoredFinishedOf(finished, n_best)

\* a get_top_hyp that returns the raw cumulative score of the best record
GetTopHypRaw ==
    IF Len(GetRescoredFinished(1)) = 0
    THEN [err |-> "IndexError", hyp |-> << >>, score |-> Quot(0, 1)]
    ELSE LET top_hypothesis_tail == GetRescoredFinished(1)[1]
             r == GetHypFromFinished(top_hypothesis_tail)
         IN  [err |-> r.err, hyp |-> r.hyp,
              score |-> Quot(top_hypothesis_tail.score.num, 10000)]

\* get_top_hyp(): indexing the empty n-best list raises IndexError
GetTopHyp ==
    IF Len(GetRescoredFinished(1)) = 0
    THEN [err |-> "IndexError", hyp |-> << >>, score |-> Quot(0, 1)]
    ELSE LET top_hypothesis_tail == GetRescoredFinished(1)[1]
             r == GetHypFromFinished(top_hypothesis_tail)
         IN  [err |-> r.err, hyp |-> r.hyp, score |-> top_hypothesis_tail.score]

\* ------------------------------------------------------------- query calls
\* the n_best arguments of get_rescored_finished: None or a count
NBests == {None} \cup (0 .. (Len(finished) + 1))

\* the tails a caller may hand to get_hyp_from_finished: any cell of the
\* trellis with any token id
Tails ==
    {HypothesisTail(ts, h, 0, tok) :
        ts \in 0 .. (Len(outputs) - 1), h \in Slots, tok \in Tokens}

\* a rescoring that writes the rescored scores (to three decimals) back
\* into self.finished
FinishedRescoredInPlace(n_best) ==
    [k \in 1 .. Len(finished) |->
        [finished[k] EXCEPT !.score =
            (@ * 10000) \div LengthPenalty(finished[k].timestep + 1)]]
\* self.finished after get_rescored_finished(n_best): the method appends to
\* a new list and sorted() returns a new list; self.finished is not assigned
FinishedAfterRescore(n_best) == finished

\* a call of get_rescored_finished(n_best)
GetRescoredFinishedCall ==
    /\ finished' \in {FinishedAfterRescore(n_best) : n_best \in NBests}
    /\ UNCHANGED <<config, scores, all_scores, bookkeep, outputs, eos_top,
                   eos_top_ts, n_best_counter, softmax_probs, passed, n_advance,
                   synthesized>>

\* a call of get_hyp_from_finished(tail): it returns or raises, and assigns
\* no field
GetHypFromFinishedCall ==
    /\ \A tail \in Tails : GetHypFromFinished(tail).err \in
                              {"none", "AssertionError", "IndexError"}
    /\ UNCHANGED <<config, beam, softmax_probs, passed, n_advance, synthesized>>

\* a call of get_top_hyp(): the two calls above, in sequence
GetTopHypCall ==
    /\ finished' = FinishedAfterRescore(1)
    /\ GetTopHyp.err \in {"none", "AssertionError", "IndexError"}
    /\ UNCHANGED <<config, scores, all_scores, bookkeep, outputs, eos_top,
                   eos_top_ts, n_best_counter, softmax_probs, passed, n_advance,
                   synthesized>>

\* a call of done(): it returns a boolean and assigns no field
DoneCall ==
    /\ Done \in BOOLEAN
    /\ UNCHANGED <<config, beam, softmax_probs, passed, n_advance, synthesized>>

\* a call of get_partial_hyp_from_tail(ts, hypid) by a caller: the replay
\* loop without the assertions; on an empty bookkeep its last iteration
\* raises IndexError. It assigns no field
GetPartialHypFromTailCall ==
    /\ \A ts \in 0 .. (Len(outputs) - 1) : \A hypid \in Slots :
          (IF Len(bookkeep) = 0 THEN Raised("IndexError")
           ELSE Returned(GetPartialHypFromTail(ts, hypid))).err
              \in {"none", "IndexError"}
    /\ UNCHANGED <<config, beam, softmax_probs, passed, n_advance, synthesized>>

\* ---------------------------------------------------------- check_finished
\* an overwrite of the whole last row
CheckFinishedOutputsRow ==
    [outputs EXCEPT ![Len(outputs)] = [s \in Slots |-> EOS]]
\* self.outputs[-1][0] = self.eos
CheckFinishedOutputs == [outputs EXCEPT ![Len(outputs)][0] = EOS]
\* a synthesized record one timestep too late
CheckFinishedTailLate ==
    HypothesisTail(Len(outputs), 0, all_scores[Len(all_scores)][0], EOS)
CheckFinishedTail ==
    HypothesisTail(Len(outputs) - 1, 0, all_scores[Len(all_scores)][0], EOS)

CheckFinished ==
    /\ IF Len(finished) = 0 /\ beam_size > 0
       THEN /\ outputs' = CheckFinishedOutputs
            /\ finished' = Append(finished, CheckFinishedTail)
            /\ synthesized' = TRUE
       ELSE UNCHANGED <<outputs, finished, synthesized>>
    /\ UNCHANGED <<config, scores, all_scores, bookkeep, eos_top, eos_top_ts,
                   n_best_counter, softmax_probs, passed, n_advance>>

LastRow(seq) == seq[Len(seq)]

\* the flat indices the last advance committed, slot by slot (post-state)
CommittedIdx(bk, out, voc_size) ==
    [s \in Slots |-> LastRow(bk)[s] * voc_size + LastRow(out)[s]]

Next ==
    \/ Advance /\ UNCHANGED <<agent_vars, pair_vars, caller_vars>>
    \/ CheckFinished /\ UNCHANGED <<agent_vars, pair_vars, caller_vars>>
    \/ GetRescoredFinishedCall /\ UNCHANGED <<agent_vars, pair_vars, caller_vars>>
    \/ GetHypFromFinishedCall /\ UNCHANGED <<agent_vars, pair_vars, caller_vars>>
    \/ GetTopHypCall /\ UNCHANGED <<agent_vars, pair_vars, caller_vars>>
    \/ DoneCall /\ UNCHANGED <<agent_vars, pair_vars, caller_vars>>
    \/ GetPartialHypFromTailCall /\ UNCHANGED <<agent_vars, pair_vars, caller_vars>>

Spec == Init /\ [][Next]_all_vars

\* a Beam of any width torch.Tensor(beam_size) accepts, zero included, and
\* a caller whose matrices are over one of two vocabularies
InitConfig ==
    /\ BeamInit
    /\ beam_size <= MaxConfigBeam
    /\ min_n_best = 1
    /\ block_ngram = 0
    /\ voc_sizes = {VocSize, VocSize + 1}
    /\ AgentInit
    /\ history_size = -1
    /\ add_person_tokens = FALSE
    /\ other = NoBeam
    /\ inputs = << >>
    /\ topk_seen = {}

SpecConfig == InitConfig /\ [][Next]_all_vars

\* ============================================================== TorchAgent
\* self.histsz: None when opt['history_size'] is negative
Histsz == IF history_size >= 0 THEN history_size ELSE None

\* a deque that drops the appended element when it is full
DequeAppendDropNew(h, x) ==
    IF Histsz = None THEN Append(h, x)
    ELSE IF Len(h) < Histsz THEN Append(h, x)
    ELSE h
\* deque(maxlen=histsz).append(x): a full deque drops its oldest element
DequeAppend(h, x) ==
    IF Histsz = None THEN Append(h, x)
    ELSE IF Histsz = 0 THEN h
    ELSE IF Len(h) < Histsz THEN Append(h, x)
    ELSE Append(Tail(h), x)

\* _add_person_tokens(text, token, add_after_newln): the token goes in front
\* of the first line, or of the last one
AddPersonTokens(text, token, add_after_newln) ==
    IF add_after_newln
    THEN [text EXCEPT ![Len(text)].tok = << token >> \o @]
    ELSE [text EXCEPT ![1].tok = << token >> \o @]

\* '\n'.join(self.history): the lines of the texts, in order
RECURSIVE Join(_)
Join(h) == IF Len(h) = 0 THEN << >> ELSE Head(h) \o Join(Tail(h))

\* the messages a teacher may send with call t
Labels(t) ==
    { [has_labels |-> FALSE, has_eval_labels |-> FALSE],
      [has_labels |-> TRUE, labels |-> << >>, has_eval_labels |-> FALSE],
      [has_labels |-> TRUE, labels |-> << << Line(t, "label", 1) >> >>,
       has_eval_labels |-> FALSE],
      [has_labels |-> TRUE,
       labels |-> << << Line(t, "label", 1) >>, << Line(t, "label", 2) >> >>,
       has_eval_labels |-> FALSE],
      [has_labels |-> FALSE, has_eval_labels |-> TRUE,
       eval_labels |-> << << Line(t, "eval_label", 1) >> >>] }

\* a text of two lines: some context, then the utterance
Texts(t) == { << Line(t, "text", 1), Line(t, "text", 2) >> }

Messages(t) ==
    { [present |-> TRUE, has_text |-> FALSE, text |-> << >>,
       episode_done |-> d, lab |-> l] :
        d \in {"true", "false", "absent"}, l \in Labels(t) }
    \cup
    { [present |-> TRUE, has_text |-> TRUE, text |-> x, episode_done |-> d,
       lab |-> l] :
        x \in Texts(t), d \in {"true", "false", "absent"}, l \in Labels(t) }

\* obs.get('episode_done', True)
EpisodeDone(obs) == obs.episode_done # "false"

\* get_dialog_history(observation, reply, add_person_tokens,
\* add_p1_after_newln): the history after the two appends, the texts
\* appended, the observation returned and the history the call leaves
GetDialogHistory(obs, reply, person_tokens, add_p1_after_newln) ==
    LET reply_text ==
            IF ~reply.some THEN << >>
            ELSE IF person_tokens
                 THEN AddPersonTokens(reply.text, "__p2__", FALSE)
                 ELSE reply.text
        h1 == IF reply.some THEN DequeAppend(history, reply_text) ELSE history
        obs_text ==
            IF obs.has_text /\ person_tokens
            THEN AddPersonTokens(obs.text, "__p1__", add_p1_after_newln)
            ELSE obs.text
        h2 == IF obs.has_text THEN DequeAppend(h1, obs_text) ELSE h1
    IN  [joined |-> h2,
         appended |-> (IF reply.some THEN << reply_text >> ELSE << >>)
                      \o (IF obs.has_text THEN << obs_text >> ELSE << >>),
         obs |-> IF Len(h2) > 0
                 THEN [obs EXCEPT !.has_text = TRUE, !.text = Join(h2)]
                 ELSE [obs EXCEPT !.text = obs_text],
         history |-> IF EpisodeDone(obs) THEN << >> ELSE h2]

\* the labels last_reply looks at: 'labels' before 'eval_labels'
LabelsOf(obs) ==
    IF obs.lab.has_labels THEN obs.lab.labels ELSE obs.lab.eval_labels

\* a last_reply that does not look at episode_done of the last observation
LastReplyAcrossEpisodes ==
    IF ~observation.present THEN { NoReply }
    ELSE IF observation.lab.has_labels \/ observation.lab.has_eval_labels
    THEN { Some(LabelsOf(observation)[k]) :
              k \in 1 .. Len(LabelsOf(observation)) }
    ELSE IF replies.state = "list" /\ replies.has_text
    THEN { Some(replies.text) }
    ELSE { NoReply }
\* last_reply(use_label=True): the replies it may return. None after the
\* end of an episode; else the only label, or random.choice of the labels
\* (IndexError on an empty list: the empty set); else the text of this
\* instance's entry of replies['batch_reply'], if any.
LastReply ==
    IF ~observation.present \/ EpisodeDone(observation) THEN { NoReply }
    ELSE IF observation.lab.has_labels \/ observation.lab.has_eval_labels
    THEN { Some(LabelsOf(observation)[k]) :
              k \in 1 .. Len(LabelsOf(observation)) }
    ELSE IF replies.state = "list" /\ replies.has_text
    THEN { Some(replies.text) }
    ELSE { NoReply }

\* observe(observation): last_reply, then get_dialog_history with the
\* agent's person_tokens option; self.observation is the returned message
Observe ==
    /\ turn < MaxTurns
    /\ \E msg \in Messages(turn + 1) :
         IF LastReply = {}
         THEN \* random.choice raised IndexError: nothing is appended
              /\ turn' = turn + 1
              /\ appended' = << >>
              /\ UNCHANGED <<agent, episode_start, reply_used>>
         ELSE \E reply \in LastReply :
              \E r \in {GetDialogHistory(msg, reply, add_person_tokens, FALSE)} :
                  /\ history' = r.history
                  /\ observation' = r.obs
                  /\ appended' = r.appended
                  /\ reply_used' = reply
                  /\ turn' = turn + 1
                  /\ episode_start' =
                        IF EpisodeDone(msg) THEN turn + 1 ELSE episode_start
                  /\ UNCHANGED replies
    /\ UNCHANGED agent_config

\* a call of get_dialog_history by a subclass or a caller, with a reply of
\* its own or none; the returned message is not stored
GetDialogHistoryCall ==
    /\ turn < MaxTurns
    /\ \E msg \in {m \in Messages(turn + 1) :
                       ~m.lab.has_labels /\ ~m.lab.has_eval_labels} :
       \E reply \in {NoReply, Some(<< Line(turn + 1, "given", 1) >>)} :
       \E person_tokens \in BOOLEAN : \E add_p1_after_newln \in BOOLEAN :
       \E r \in {GetDialogHistory(msg, reply, person_tokens,
                                  add_p1_after_newln)} :
           /\ history' = r.history
           /\ appended' = r.appended
           /\ turn' = turn + 1
           /\ episode_start' =
                 IF EpisodeDone(msg) THEN turn + 1 ELSE episode_start
    /\ UNCHANGED <<agent_config, observation, replies, reply_used>>

\* batch_act: replies['batch_reply'] becomes None (the model gave no
\* output) or the list of replies, this instance's entry with or without
\* a text
BatchAct ==
    /\ observation.present
    /\ replies' \in { [state |-> "none"],
                      [state |-> "list", has_text |-> FALSE],
                      [state |-> "list", has_text |-> TRUE,
                       text |-> << Line(turn, "reply", 1) >>] }
    /\ UNCHANGED <<agent_config, history, observation, turn, episode_start,
                   appended, reply_used>>

\* reset()
Reset ==
    /\ observation' = NoObservation
    /\ history' = << >>
    /\ replies' = NoReplies
    /\ episode_start' = turn
    /\ UNCHANGED <<agent_config, turn, appended, reply_used>>

NextAgent ==
    \/ Observe /\ UNCHANGED <<vars, pair_vars, caller_vars>>
    \/ GetDialogHistoryCall /\ UNCHANGED <<vars, pair_vars, caller_vars>>
    \/ BatchAct /\ UNCHANGED <<vars, pair_vars, caller_vars>>
    \/ Reset /\ UNCHANGED <<vars, pair_vars, caller_vars>>

\* an agent, beside a Beam of width 1 that is never called
InitAgent ==
    /\ AgentInit
    /\ BeamInit
    /\ voc_sizes = {VocSize}
    /\ beam_size = 1
    /\ min_length = 0
    /\ min_n_best = 1
    /\ block_ngram = 0
    /\ other = NoBeam
    /\ inputs = << >>
    /\ topk_seen = {}

SpecAgent == InitAgent /\ [][NextAgent]_all_vars

\* =============================================================== two beams
\* the Beam object held by the variables, as a record
Self ==
    [present |-> TRUE,
     beam_size |-> beam_size, min_length |-> min_length,
     min_n_best |-> min_n_best, block_ngram |-> block_ngram,
     scores |-> scores, all_scores |-> all_scores, bookkeep |-> bookkeep,
     outputs |-> outputs, finished |-> finished, eos_top |-> eos_top,
     eos_top_ts |-> eos_top_ts, n_best_counter |-> n_best_counter,
     softmax_probs |-> softmax_probs, passed |-> passed,
     n_advance |-> n_advance,
     synthesized |-> synthesized, inputs |-> inputs]

\* the receiver of the next calls is the other Beam object: the variables
\* hold its fields, and other holds the fields of the first
Switch ==
    /\ beam_size' = other.beam_size
    /\ min_length' = other.min_length
    /\ min_n_best' = other.min_n_best
    /\ block_ngram' = other.block_ngram
    /\ scores' = other.scores
    /\ all_scores' = other.all_scores
    /\ bookkeep' = other.bookkeep
    /\ outputs' = other.outputs
    /\ finished' = other.finished
    /\ eos_top' = other.eos_top
    /\ eos_top_ts' = other.eos_top_ts
    /\ n_best_counter' = other.n_best_counter
    /\ softmax_probs' = other.softmax_probs
    /\ passed' = other.passed
    /\ n_advance' = other.n_advance
    /\ synthesized' = other.synthesized
    /\ inputs' = other.inputs
    /\ other' = Self
    /\ UNCHANGED topk_seen

\* a torch.topk that may return another selection for an input it has
\* seen before
TopkAny(flat, idx) == TRUE
\* torch.topk is a function of its input: the selection for an input seen
\* before is the one returned then
TopkAgrees(flat, idx) == \A p \in topk_seen : p[1] = flat => p[2] = idx

\* advance on the Beam object held by the variables, with a matrix whose
\* rows are equal
AdvancePair ==
    /\ n_advance < MaxPairSteps
    /\ Advance
    /\ n_advance' = n_advance + 1
    /\ \A s \in Slots : softmax_probs'[s] = softmax_probs'[0]
    /\ \E flat \in {FlatBeamScores(softmax_probs')} :
       \E idx \in {CommittedIdx(bookkeep', outputs', Voc(softmax_probs'))} :
           /\ TopkAgrees(flat, idx)
           /\ topk_seen' = topk_seen \cup {<<flat, idx>>}
           /\ inputs' = Append(inputs, [op |-> "advance",
                                        probs |-> softmax_probs',
                                        best_idxs |-> idx])
    /\ UNCHANGED other

\* check_finished on the Beam object held by the variables; a call that
\* finds finished non-empty does nothing and is not recorded
CheckFinishedPair ==
    /\ CheckFinished
    /\ inputs' = IF Len(finished) = 0
                 THEN Append(inputs, [op |-> "check_finished",
                                      probs |-> << >>, best_idxs |-> << >>])
                 ELSE inputs
    /\ UNCHANGED <<other, topk_seen>>

NextPair ==
    \/ AdvancePair /\ UNCHANGED <<agent_vars, caller_vars>>
    \/ CheckFinishedPair /\ UNCHANGED <<agent_vars, caller_vars>>
    \/ GetRescoredFinishedCall /\ UNCHANGED <<agent_vars, pair_vars, caller_vars>>
    \/ GetHypFromFinishedCall /\ UNCHANGED <<agent_vars, pair_vars, caller_vars>>
    \/ GetTopHypCall /\ UNCHANGED <<agent_vars, pair_vars, caller_vars>>
    \/ Switch /\ UNCHANGED <<agent_vars, caller_vars>>

\* two Beam objects constructed with the same parameters, beside an agent
\* that is never called
InitPair ==
    /\ BeamInit
    /\ beam_size >= 1
    /\ beam_size <= MaxPairBeam
    /\ voc_sizes = {VocSize}
    /\ min_n_best = 1
    /\ block_ngram = 0
    /\ AgentInit
    /\ history_size = -1
    /\ add_person_tokens = FALSE
    /\ inputs = << >>
    /\ topk_seen = {}
    /\ other = Self

SpecPair == InitPair /\ [][NextPair]_all_vars

\* =================================================================== claims
\* ----------------------------------------------------------------------- C1
\* C1: after N completed advance calls (interleaved with check_finished and
\* queries) all_scores and outputs hold N+1 rows, bookkeep holds N rows, and
\* every row has exactly beam_size entries.
C1_ShapeInvariant ==
    /\ Len(all_scores) = n_advance + 1
    /\ Len(outputs) = n_advance + 1
    /\ Len(bookkeep) = n_advance
    /\ \A t \in 1 .. Len(all_scores) : DOMAIN all_scores[t] = Slots
    /\ \A t \in 1 .. Len(outputs) : DOMAIN outputs[t] = Slots
    /\ \A t \in 1 .. Len(bookkeep) : DOMAIN bookkeep[t] = Slots
    /\ DOMAIN scores = Slots

C1_Witness == n_advance >= 2 /\ synthesized /\ beam_size >= 2

\* ----------------------------------------------------------------------- C2
\* C2: with min_length = k, whatever distributions advance is fed, no trellis
\* cell of a timestep t < k holds the end token and no finished record has a
\* timestep < k (behaviours of advance calls alone: check_finished has not
\* overwritten a cell).
C2_LengthFloor ==
    ~synthesized =>
        /\ \A t \in 0 .. (Len(outputs) - 1) : \A s \in Slots :
              t < min_length => outputs[t + 1][s] # EOS
        /\ \A k \in 1 .. Len(finished) : finished[k].timestep >= min_length

\* ----------------------------------------------------------------------- C3
\* the selection the claim describes: the largest value first, the lowest
\* flat index among equal values.
RECURSIVE LowestIndexFirst(_, _, _)
LowestIndexFirst(flat, remaining, k) ==
    IF k = 0 THEN << >>
    ELSE LET m == SetMax({flat[x] : x \in remaining})
             x == SetMin({y \in remaining : flat[y] = m})
         IN  << x >> \o LowestIndexFirst(flat, remaining \ {x}, k - 1)

\* C3 as claimed: every advance commits the beam_size highest-scoring
\* (source slot, token) pairs of the composed score matrix, equal scores
\* ordered by flat index (lower slot first, then lower token id).
C3_TopKLowestIndexFirst ==
    [][n_advance' = n_advance + 1 =>
        \E flat \in {FlatBeamScores(softmax_probs')} :
        \E idx \in {CommittedIdx(bookkeep', outputs', Voc(softmax_probs'))} :
            idx = [s \in Slots |->
                     LowestIndexFirst(flat, DOMAIN flat, beam_size)[s + 1]]]_vars

\* C3 as amended: every advance commits beam_size distinct flat indices of the
\* composed score matrix, in non-increasing order of score, no uncommitted
\* entry scoring higher than a committed one; the source slot is the flat
\* index div vocabulary size, the token the flat index mod vocabulary size,
\* and the committed score is the composed score of that entry. Nothing is
\* said about the order among equal scores.
C3_TopK ==
    [][n_advance' = n_advance + 1 =>
        \E flat \in {FlatBeamScores(softmax_probs')} :
        \E idx \in {CommittedIdx(bookkeep', outputs', Voc(softmax_probs'))} :
            /\ \A s \in Slots : /\ idx[s] \in DOMAIN flat
                                /\ LastRow(outputs')[s] \in DOMAIN softmax_probs'[0]
                                /\ LastRow(bookkeep')[s] =
                                      idx[s] \div Voc(softmax_probs')
                                /\ LastRow(outputs')[s] =
                                      idx[s] % Voc(softmax_probs')
                                /\ LastRow(all_scores')[s] = flat[idx[s]]
                                /\ scores'[s] = flat[idx[s]]
            /\ \A s, r \in Slots : s < r =>
                  /\ idx[s] # idx[r]
                  /\ flat[idx[s]] >= flat[idx[r]]
            /\ \A x \in DOMAIN flat :
                  (\A s \in Slots : idx[s] # x) =>
                      flat[x] <= flat[idx[beam_size - 1]]]_vars

\* a later advance whose committed scores tie and whose slots extend
\* different source slots
C3_Witness ==
    /\ n_advance >= 2
    /\ beam_size >= 2
    /\ scores[0] = scores[1]
    /\ LastRow(bookkeep)[0] # LastRow(bookkeep)[1]

\* ----------------------------------------------------------------------- C4
\* the records of finished that advance recorded: all but the one that
\* check_finished synthesized
AdvanceRecorded == IF synthesized THEN Tail(finished) ELSE finished

\* C4 as claimed: done() is true iff slot 0 has emitted the end token
\* (eos_top) and the number of finished hypotheses recorded so far, the
\* length of finished, is at least min_n_best.
C4_DoneIffFinishedCount ==
    Done <=> (eos_top /\ Len(finished) >= min_n_best)

\* C4 as amended: done() is true iff some advance recorded an end token in
\* slot 0 and the number of records that advance calls added to finished is
\* at least min_n_best; the record synthesized by check_finished is not
\* counted.
C4_DoneIffAdvanceRecorded ==
    Done <=> /\ \E k \in 1 .. Len(AdvanceRecorded) : AdvanceRecorded[k].hypid = 0
             /\ Len(AdvanceRecorded) >= min_n_best

C4_Witness == Done /\ synthesized /\ min_n_best >= 2

\* ----------------------------------------------------------------------- C5
\* C5 as claimed: for every record of finished, get_hyp_from_finished
\* returns timestep + 1 records, the first the start token at timestep 0,
\* the last the end token at the record's timestep, each record's slot the
\* backpointer predecessor of the next record's slot, each score the
\* all_scores entry of its cell (stated for beams that have advanced).
C5_ReplayForward ==
    Len(bookkeep) > 0 => \A k \in 1 .. Len(finished) :
        LET tail == finished[k]
            r == GetHypFromFinished(tail)
            h == r.hyp
        IN  /\ r.err = "none"
            /\ Len(h) = tail.timestep + 1
            /\ h[1].timestep = 0 /\ h[1].tokenid = BOS
            /\ h[Len(h)].timestep = tail.timestep /\ h[Len(h)].tokenid = EOS
            /\ \A j \in 1 .. (Len(h) - 1) :
                  h[j].hypid = bookkeep[h[j + 1].timestep][h[j + 1].hypid]
            /\ \A j \in 1 .. Len(h) :
                  h[j].score = all_scores[h[j].timestep + 1][h[j].hypid]

\* C5 as amended: for every record of finished, once an advance has been
\* made, get_hyp_from_finished returns timestep + 1 records in reverse
\* order: the first is the record's own cell (the end token), the j-th is
\* at timestep tail.timestep - j + 1, each record's slot is the backpointer
\* predecessor of the record before it, the last is at timestep 0 and holds
\* the start token (the end token, if check_finished overwrote cell (0, 0)
\* before the first advance), and each score is the all_scores entry of its
\* cell. Before any advance the replay of the synthesized record raises
\* IndexError.
C5_ReplayReverse ==
    \A k \in 1 .. Len(finished) :
        LET tail == finished[k]
            r == GetHypFromFinished(tail)
            h == r.hyp
        IN  IF Len(bookkeep) = 0 THEN r.err = "IndexError"
            ELSE /\ r.err = "none"
                 /\ Len(h) = tail.timestep + 1
                 /\ h[1].timestep = tail.timestep
                 /\ h[1].hypid = tail.hypid
                 /\ h[1].tokenid = EOS
                 /\ \A j \in 1 .. Len(h) :
                      /\ h[j].timestep = tail.timestep - j + 1
                      /\ h[j].score = all_scores[h[j].timestep + 1][h[j].hypid]
                      /\ h[j].tokenid = outputs[h[j].timestep + 1][h[j].hypid]
                 /\ \A j \in 1 .. (Len(h) - 1) :
                      h[j + 1].hypid = bookkeep[h[j].timestep][h[j].hypid]
                 /\ h[Len(h)].tokenid =
                      IF finished[1].timestep = 0 /\ h[Len(h)].hypid = 0
                      THEN EOS ELSE BOS

\* a finished record of timestep >= 2 whose path changes slot
C5_Witness ==
    \E k \in 1 .. Len(finished) :
        /\ finished[k].timestep >= 2
        /\ bookkeep[finished[k].timestep][finished[k].hypid] # finished[k].hypid

\* ----------------------------------------------------------------------- C6
\* C6: when finished is empty after N advance calls, check_finished (the
\* only step that fills finished without an advance) overwrites the slot-0
\* token of timestep N with the end token, changes no other cell, and
\* leaves finished holding exactly one record: timestep N, slot 0, the end
\* token, score all_scores[N][0].
C6_CheckFinishedDegenerate ==
    [][(Len(finished) = 0 /\ Len(finished') > 0 /\ n_advance' = n_advance) =>
        /\ finished' = << HypothesisTail(n_advance, 0,
                                         all_scores[n_advance + 1][0], EOS) >>
        /\ Len(outputs') = Len(outputs)
        /\ outputs'[n_advance + 1][0] = EOS
        /\ \A t \in 1 .. Len(outputs) : \A s \in Slots :
              (t # n_advance + 1 \/ s # 0) => outputs'[t][s] = outputs[t][s]
        /\ all_scores' = all_scores]_vars

C6_Witness ==
    /\ synthesized
    /\ n_advance >= 1
    /\ Len(finished) = 1
    /\ finished[1].timestep = n_advance

\* ----------------------------------------------------------------------- C7
\* C7: a call of check_finished, after any number of advance calls including
\* zero, leaves finished non-empty and get_top_hyp() returning a hypothesis
\* and a score without raising.
C7_TopHypAfterCheckFinished ==
    [][CheckFinished => (Len(finished') > 0 /\ GetTopHyp'.err = "none")]_vars

\* ----------------------------------------------------------------------- C8
\* the tokens of the hypothesis of a finished record, timestep 1 onwards
HypTokens(tail) ==
    LET h == ReplayFrom(tail.timestep, tail.hypid)
    IN  [j \in 1 .. tail.timestep |-> h[tail.timestep + 1 - j].tokenid]

\* C8: with block_ngram = 1, no finished hypothesis contains the same token
\* twice (hypotheses recorded by advance whose only end token is the last).
C8_NoRepeatedToken ==
    (block_ngram = 1 /\ ~synthesized) =>
        \A k \in 1 .. Len(finished) :
            LET toks == HypTokens(finished[k])
            IN  (\A j \in 1 .. (Len(toks) - 1) : toks[j] # EOS) =>
                    \A a, b \in 1 .. Len(toks) : a < b => toks[a] # toks[b]

\* ----------------------------------------------------------------------- C9
\* C9: a slot whose token at timestep t is the end token is never expanded:
\* no backpointer of timestep t+1 refers to it (behaviours of advance calls
\* alone).
C9_DeadSlotNotExpanded ==
    ~synthesized =>
        \A t \in 1 .. Len(bookkeep) : \A s \in Slots :
            outputs[t][bookkeep[t][s]] # EOS

\* ---------------------------------------------------------------------- C10
\* C10: across every step the number of finished records and the finished
\* counter never decrease, and the records already in finished stay, in
\* place and unaltered.
C10_FinishedMonotonic ==
    [][/\ Len(finished') >= Len(finished)
       /\ n_best_counter' >= n_best_counter
       /\ SubSeq(finished', 1, Len(finished)) = finished]_vars

C10_Witness == Len(finished) >= 2 /\ n_best_counter >= 2 /\ n_advance >= 2

\* ---------------------------------------------------------------------- C11
\* the rescored record of a finished record: same timestep, slot and token,
\* the raw score divided by the length penalty of timestep + 1
Rescored(f) ==
    HypothesisTail(f.timestep, f.hypid,
                   Quot(f.score, LengthPenalty(f.timestep + 1)), f.tokenid)

Occurrences(seq, r) == Cardinality({k \in 1 .. Len(seq) : seq[k] = r})

\* C11: get_rescored_finished() returns one record per finished record,
\* with the same timestep, slot and token and the score raw score /
\* ((1 + (timestep + 1)) / 6)^0.65, in non-increasing order of rescored
\* score; with n_best given it returns the first min(n_best, number of
\* finished records) records of that order.
C11_RescoredFinished ==
    \E full \in {GetRescoredFinished(None)} :
        /\ Len(full) = Len(finished)
        /\ \A k \in 1 .. Len(finished) :
              Occurrences(full, Rescored(finished[k])) =
                  Occurrences(finished, finished[k])
        /\ \A k \in 1 .. (Len(full) - 1) :
              ~QuotGreater(full[k + 1].score, full[k].score)
        /\ \A n_best \in 0 .. (Len(finished) + 1) :
              GetRescoredFinished(n_best) =
                  SubSeq(full, 1, IF n_best < Len(full) THEN n_best ELSE Len(full))

\* three finished records whose rescored order is not the order in which
\* they were recorded
C11_Witness ==
    /\ Len(finished) >= 3
    /\ GetRescoredFinished(None)[1] # Rescored(finished[1])
    /\ GetRescoredFinished(None)[Len(finished)] # Rescored(finished[Len(finished)])

\* ---------------------------------------------------------------------- C12
\* C12: a call of get_rescored_finished leaves the beam such that the same
\* call, with any n_best, returns what it returned before: two consecutive
\* calls with the same n_best return identical ordered outputs.
C12_RescoreIdempotent ==
    [][GetRescoredFinishedCall =>
          \E after \in {finished'} : \A n_best \in NBests :
              RescoredFinishedOf(after, n_best) = GetRescoredFinished(n_best)]_vars

\* two finished records, one of them with a non-zero raw score
C12_Witness ==
    /\ Len(finished) >= 2
    /\ \E k \in 1 .. Len(finished) : finished[k].score # 0

\* ---------------------------------------------------------------------- C13
QuotEq(a, b) == a.num * b.den = b.num * a.den

\* finished[k] has a maximal rescored score
MaxRescored(k) ==
    \A j \in 1 .. Len(finished) :
        ~QuotGreater(Rescored(finished[j]).score, Rescored(finished[k]).score)

\* C13: get_top_hyp() is get_rescored_finished(n_best=1)[0] followed by
\* get_hyp_from_finished: it raises IndexError when nothing is finished;
\* otherwise there is a finished record of maximal rescored score whose
\* replay (or whose replay's exception) it returns, together with that
\* record's rescored score, not its raw score.
C13_TopHypIsBestRescored ==
    \E r \in {GetTopHyp} :
        IF Len(finished) = 0 THEN r.err = "IndexError"
        ELSE /\ r.err = GetHypFromFinished(GetRescoredFinished(1)[1]).err
             /\ r.hyp = GetHypFromFinished(GetRescoredFinished(1)[1]).hyp
             /\ \E k \in 1 .. Len(finished) :
                   /\ MaxRescored(k)
                   /\ r.err = GetHypFromFinished(finished[k]).err
                   /\ r.hyp = GetHypFromFinished(finished[k]).hyp
                   /\ QuotEq(r.score,
                             Quot(finished[k].score,
                                  LengthPenalty(finished[k].timestep + 1)))

\* the best record is not the first one recorded, and its raw score is not
\* zero, so that the rescored score differs from the raw one
C13_Witness ==
    /\ Len(finished) >= 2
    /\ Len(bookkeep) >= 2
    /\ GetTopHyp.err = "none"
    /\ GetTopHyp.score.num # 0
    /\ ~MaxRescored(1)

\* ---------------------------------------------------------------------- C14
\* C14: a call of advance, check_finished or a query on one Beam object
\* leaves every field of the other unchanged; and whatever the
\* interleaving of the calls on the two, the state of each is that of its
\* own calls alone: two beams of the same parameters that got the same
\* calls, with the same selections by torch.topk, are in the same state,
\* field by field.
C14_BeamsIndependent ==
    [][/\ other' = other \/ (other' = Self /\ Self' = other)
       /\ inputs = other.inputs => Self = other
       /\ inputs' = other'.inputs => Self' = other']_all_vars

\* both beams have advanced twice and one has a finished hypothesis; the
\* calls were interleaved: the second beam got its first call before the
\* first beam got its last
C14_Witness ==
    /\ n_advance = 2
    /\ other.n_advance = 2
    /\ Len(finished) >= 1
    /\ beam_size = 2
    /\ Self # other

\* ---------------------------------------------------------------------- C15
\* the distributions and check_finished calls a beam was fed
Fed(tr) == [k \in 1 .. Len(tr) |-> [op |-> tr[k].op, probs |-> tr[k].probs]]

C16_ConfigErrorsRejected ==
    [][/\ beam_size >= 1
       /\ (/\ n_advance >= 1
           /\ softmax_probs' # softmax_probs
           /\ Voc(softmax_probs') # Voc(softmax_probs))
              => /\ all_scores' = all_scores
                 /\ outputs' = outputs
                 /\ bookkeep' = bookkeep]_all_vars

\* ---------------------------------------------------------------------- C19
\* the last n elements of a sequence (all of them, if it has fewer)
LastN(seq, n) ==
    IF Len(seq) <= n THEN seq ELSE SubSeq(seq, Len(seq) - n + 1, Len(seq))

\* C19: with history_size = h >= 0 the history never holds more than h
\* utterances, and a call of observe or get_dialog_history that does not
\* end the episode leaves the last h of the utterances it had and those
\* the call appended (the oldest are dropped first); with history_size < 0
\* it leaves them all. A call that ends the episode leaves it empty.
C19_HistoryWindow ==
    [][/\ history_size >= 0 => Len(history) <= history_size
       /\ history_size >= 0 => Len(history') <= history_size
       /\ turn' = turn + 1 =>
             history' = IF episode_start' = turn' THEN << >>
                        ELSE IF history_size < 0 THEN history \o appended'
                        ELSE LastN(history \o appended', history_size)]_all_vars

\* a reply and a text were appended to a history of size 1: the reply was
\* dropped again
C19_Witness ==
    /\ history_size = 1
    /\ Len(appended) = 2
    /\ history = << appended[2] >>

\* ---------------------------------------------------------------------- C20
\* the lines of the texts of a history
HistoryLines(h) == {Join(h)[k] : k \in 1 .. Len(Join(h))}

\* C20: an observe of a message whose episode_done is true or absent
\* leaves the history empty; while that message is the agent's
\* observation the history holds only lines of later calls, and the
\* observe that follows gets None from last_reply: the text of its
\* observation holds no label, no model reply and no line that came with a
\* call of the finished episode.
C20_EpisodeBoundary ==
    [][/\ Observe => (EpisodeDone(observation') => history' = << >>)
       /\ (observation.present /\ EpisodeDone(observation)) =>
             /\ \A ln \in HistoryLines(history) : ln.turn > episode_start
             /\ Observe =>
                  /\ reply_used' = NoReply
                  /\ \A ln \in HistoryLines(<< observation'.text >>) :
                        /\ ln.turn > episode_start
                        /\ ln.kind \in {"text", "given"}]_all_vars

\* the second observe, with a text, got no reply although the model had
\* replied to the first: the first message ended its episode
C20_Witness ==
    /\ turn = 2
    /\ observation.present
    /\ observation.has_text
    /\ \A ln \in HistoryLines(<< observation.text >>) : ln.turn = 2
    /\ reply_used = NoReply
    /\ replies.state = "list"
    /\ replies.has_text
    /\ replies.text[1].turn = 1

\* ---------------------------------------------------------------------- C17
\* C17: get_hyp_from_finished called with a tail of a trellis cell that
\* does not hold the end token, or with a token id other than the end
\* token, raises AssertionError and returns no sequence; the call leaves
\* every field of the beam unchanged.
C17_ContractViolation ==
    [][/\ \A tail \in Tails :
            (outputs[tail.timestep + 1][tail.hypid] # EOS \/ tail.tokenid # EOS)
                => /\ GetHypFromFinished(tail).err = "AssertionError"
                   /\ GetHypFromFinished(tail).hyp = << >>
       /\ GetHypFromFinishedCall => beam' = beam]_vars

\* a beam that has advanced, with a cell that holds the end token and one
\* that does not
C17_Witness ==
    /\ n_advance >= 2
    /\ \E t1, t2 \in Tails :
          /\ outputs[t1.timestep + 1][t1.hypid] = EOS /\ t1.tokenid # EOS
          /\ outputs[t2.timestep + 1][t2.hypid] # EOS /\ t2.tokenid = EOS

\* ---------------------------------------------------------------------- C18
\* C18: every backpointer entry of every timestep t >= 1 is a slot index in
\* [0, beam_size), a slot of timestep t - 1.
C18_BackpointerValid ==
    \A t \in 1 .. Len(bookkeep) : \A s \in Slots :
        /\ bookkeep[t][s] \in Slots
        /\ bookkeep[t][s] \in DOMAIN outputs[t]
        /\ bookkeep[t][s] \in DOMAIN all_scores[t]

\* a later step whose slots extend slots other than slot 0
C18_Witness ==
    /\ Len(bookkeep) >= 2
    /\ \E s \in Slots : LastRow(bookkeep)[s] = beam_size - 1 /\ beam_size >= 2

\* ---------------------------------------------------------------------- C21
\* slot i's row of candidate scores is forced to -NEAR_INF on a later step:
\* its hypothesis repeats an n-gram, or its last token is the end token
RowForced(i) == NgramBlocked(i) \/ LastRow(outputs)[i] = EOS

\* C21: the first advance reads row 0 of the matrix only: every backpointer
\* of timestep 1 is 0 and every score of timestep 1 is the row-0 entry of
\* the slot's token. On a later advance the committed score of a slot is
\* the score its backpointer predecessor had at the previous step plus the
\* matrix entry at (predecessor, token), in float addition, unless the
\* predecessor's row was forced to -NEAR_INF, and then it is -NEAR_INF.
\* (The matrix is the caller's as advance left it: while the length floor
\* holds its end-token entries are -NEAR_INF.)
C21_ScoreComposition ==
    [][n_advance' = n_advance + 1 =>
        \A s \in Slots :
            \E bp \in {LastRow(bookkeep')[s]} :
            \E tok \in {LastRow(outputs')[s]} :
                IF Len(bookkeep) = 0
                THEN /\ bp = 0
                     /\ LastRow(all_scores')[s] = softmax_probs'[0][tok]
                ELSE LastRow(all_scores')[s] =
                        IF RowForced(bp) THEN -NEAR_INF
                        ELSE FAdd(softmax_probs'[bp][tok],
                                  LastRow(all_scores)[bp])]_vars

\* a later step: a slot extends another slot and its score is the sum of
\* two entries that are not zero
C21_Witness ==
    /\ n_advance >= 2
    /\ \E s \in Slots :
          /\ LastRow(bookkeep)[s] # s
          /\ scores[s] <= -2
          /\ ~IsInf(scores[s])

\* ---------------------------------------------------------------------- C22
\* the records of finished for the cell (t, s)
RecordsOf(t, s) ==
    {k \in 1 .. Len(finished) :
        finished[k].timestep = t /\ finished[k].hypid = s}

\* C22: in every reachable state finished holds exactly one record for
\* every trellis cell whose token is the end token, and no other record;
\* every record has the end token as its token id and the all_scores entry
\* of its cell as its score, so that neither assertion of
\* get_hyp_from_finished fails for a record of finished.
C22_FinishedBookkeeping ==
    /\ \A t \in 0 .. (Len(outputs) - 1) : \A s \in Slots :
          Cardinality(RecordsOf(t, s)) =
              IF outputs[t + 1][s] = EOS THEN 1 ELSE 0
    /\ \A k \in 1 .. Len(finished) :
          /\ finished[k].timestep \in 0 .. (Len(outputs) - 1)
          /\ finished[k].hypid \in Slots
          /\ finished[k].tokenid = EOS
          /\ finished[k].score =
                all_scores[finished[k].timestep + 1][finished[k].hypid]
          /\ GetHypFromFinished(finished[k]).err # "AssertionError"

\* records of two timesteps, one of them of a slot other than slot 0, and
\* cells that hold other tokens
C22_Witness ==
    /\ \E k, j \in 1 .. Len(finished) :
          /\ finished[k].timestep # finished[j].timestep
          /\ finished[k].hypid # 0
    /\ \E s \in Slots : LastRow(outputs)[s] # EOS

\* ---------------------------------------------------------------------- C23
\* the step is an advance that put the end token into slot 0
TopEmitsEos ==
    n_advance' = n_advance + 1 /\ LastRow(outputs')[0] = EOS

\* C23: eos_top_ts stays unset over every step that is not an advance
\* putting the end token into slot 0 (check_finished included); the first
\* such advance sets it to the timestep it wrote, and no later step changes
\* it, also when slot 0 gets the end token again. eos_top becomes true with
\* that advance and never reverts to false.
C23_TopFinishedOnce ==
    [][/\ eos_top => eos_top'
       /\ eos_top_ts # None => eos_top_ts' = eos_top_ts
       /\ (eos_top_ts = None /\ ~TopEmitsEos) => eos_top_ts' = None
       /\ (eos_top_ts = None /\ TopEmitsEos) =>
             eos_top_ts' = Len(outputs') - 1
       /\ eos_top' = (eos_top \/ TopEmitsEos)
       /\ (eos_top_ts = None) = ~eos_top]_vars

\* slot 0 got the end token at timestep 1 and again at the last step
C23_Witness ==
    /\ eos_top
    /\ eos_top_ts = 1
    /\ n_advance >= 2
    /\ LastRow(outputs)[0] = EOS

\* ---------------------------------------------------------------------- C24
\* some n-gram of n tokens occurs more than once in the token sequence h
RepeatsNgram(h, n) ==
    \E a, b \in 1 .. (Len(h) - n + 1) :
        a < b /\ SubSeq(h, a, a + n - 1) = SubSeq(h, b, b + n - 1)

\* the veto as claimed: for some n in 1..upto the sequence of slot i
\* repeats an n-gram
Vetoed(i, upto) == \E n \in 1 .. upto : RepeatsNgram(CurrentHypo(i), n)

\* the candidates of the slots that are neither vetoed nor dead, with a
\* score that is not -NEAR_INF
OpenCandidates(flat, voc_size, upto) ==
    {x \in DOMAIN flat :
        /\ ~Vetoed(x \div voc_size, upto)
        /\ LastRow(outputs)[x \div voc_size] # EOS
        /\ ~IsInf(flat[x])}

\* C24: with block_ngram = N > 0, at every advance after the first, a slot
\* whose token sequence repeats an n-gram for some n in 1..N (N included)
\* has its whole row of candidate scores at -NEAR_INF, and no committed
\* slot extends it while the slots that are neither vetoed nor dead offer
\* at least beam_size candidates; with block_ngram = 0 the row of a live
\* slot is never forced.
C24_NgramVeto ==
    [][(n_advance' = n_advance + 1 /\ Len(bookkeep) > 0) =>
        \E flat \in {FlatBeamScores(softmax_probs')} :
        \E voc_size \in {Voc(softmax_probs')} :
        \A i \in Slots :
            /\ (block_ngram > 0 /\ Vetoed(i, block_ngram)) =>
                  /\ \A v \in 0 .. (voc_size - 1) :
                        flat[i * voc_size + v] = -NEAR_INF
                  /\ Cardinality(OpenCandidates(flat, voc_size, block_ngram))
                         >= beam_size
                       => \A s \in Slots : LastRow(bookkeep')[s] # i
            /\ (block_ngram = 0 /\ LastRow(outputs)[i] # EOS) =>
                  \A v \in 0 .. (voc_size - 1) :
                      flat[i * voc_size + v] =
                          FAdd(softmax_probs'[i][v], scores[i])]_vars

\* ---------------------------------------------------------------------- C25
\* C25: the sequence get_hyp_from_finished returns for a record of finished
\* is in reverse order: its first element is the record at the tail's
\* timestep and holds the end token, the timesteps go down by one, and its
\* last element is the record at timestep 0 and holds the start token;
\* reversed, as get_pretty_hypothesis does, it is in forward order, from
\* the start token to the end token.
C25_ReplayOrder ==
    \A k \in 1 .. Len(finished) :
        \E r \in {GetHypFromFinished(finished[k])} :
            r.err = "none" =>
                \E h \in {r.hyp} : \E pretty \in {GetPrettyHypothesis(r.hyp)} :
                    /\ Len(h) = finished[k].timestep + 1
                    /\ h[1].timestep = finished[k].timestep
                    /\ h[1].tokenid = EOS
                    /\ \A j \in 1 .. Len(h) :
                          h[j].timestep = finished[k].timestep - j + 1
                    /\ h[Len(h)].timestep = 0
                    /\ h[Len(h)].tokenid = BOS
                    /\ Len(pretty) = Len(h)
                    /\ pretty[1] = BOS
                    /\ pretty[Len(pretty)] = EOS
                    /\ \A j \in 1 .. Len(pretty) :
                          pretty[j] = h[Len(h) + 1 - j].tokenid

\* ---------------------------------------------------------------------- C26
\* the place of the record of cell (t, s) in a list of records
PlaceOf(list, t, s) ==
    CHOOSE k \in 1 .. Len(list) : list[k].timestep = t /\ list[k].hypid = s

\* C26: of two finished records with the same negative raw score,
\* get_rescored_finished ranks the one of the larger timestep earlier (its
\* rescored score is strictly higher).
C26_LongerRanksEarlier ==
    \E full \in {GetRescoredFinished(None)} :
        \A i, j \in 1 .. Len(finished) :
            (/\ finished[i].score = finished[j].score
             /\ finished[i].score < 0
             /\ finished[i].timestep > finished[j].timestep)
                => /\ PlaceOf(full, finished[i].timestep, finished[i].hypid)
                        < PlaceOf(full, finished[j].timestep, finished[j].hypid)
                   /\ QuotGreater(Rescored(finished[i]).score,
                                  Rescored(finished[j]).score)

\* two records of the same finite negative raw score, of different
\* timesteps
C26_Witness ==
    \E i, j \in 1 .. Len(finished) :
        /\ finished[i].score = finished[j].score
        /\ finished[i].score < 0
        /\ ~IsInf(finished[i].score)
        /\ finished[i].timestep > finished[j].timestep

\* ---------------------------------------------------------------------- C27
\* C27: a call of check_finished with finished non-empty changes no field;
\* with finished empty it changes the slot-0 token of the last timestep and
\* finished, and leaves all_scores, scores, bookkeep, every other token,
\* eos_top, eos_top_ts and n_best_counter as they were. After the call
\* finished is non-empty, so a second call changes nothing.
C27_CheckFinishedFrame ==
    [][CheckFinished =>
        /\ Len(finished) > 0 => beam' = beam
        /\ Len(finished) = 0 =>
              /\ Len(finished') = 1
              /\ Len(outputs') = Len(outputs)
              /\ \A t \in 1 .. Len(outputs) : \A s \in Slots :
                    (t # Len(outputs) \/ s # 0) =>
                        outputs'[t][s] = outputs[t][s]
              /\ UNCHANGED <<scores, all_scores, bookkeep, eos_top,
                             eos_top_ts, n_best_counter>>
        /\ Len(finished') > 0
        /\ UNCHANGED <<config, softmax_probs>>]_vars

\* check_finished found finished empty on a beam of two or more slots that
\* had advanced, and the other slots kept their tokens
C27_Witness ==
    /\ synthesized
    /\ beam_size >= 2
    /\ n_advance >= 1
    /\ finished[1].timestep = n_advance
    /\ \E s \in Slots : LastRow(outputs)[s] # EOS
    /\ n_best_counter = 0
    /\ ~eos_top

\* ---------------------------------------------------------------------- C28
\* C28: once done() is true it stays true over every later step, whichever
\* calls of advance and check_finished follow.
C28_DoneStable == [][Done => Done']_vars

\* done() was true after the advance that gave slot 0 the end token, and
\* the beam was advanced again, slot 0 getting another token
C28_Witness ==
    /\ Done
    /\ ~synthesized
    /\ eos_top_ts # None
    /\ eos_top_ts < n_advance
    /\ LastRow(outputs)[0] # EOS
    /\ Cardinality({k \in 1 .. Len(finished) :
                       finished[k].timestep <= eos_top_ts}) >= min_n_best

\* ---------------------------------------------------------------------- C29
\* C29: at every timestep t >= 1 the committed scores are non-increasing in
\* the slot index, so that slot 0 holds the best score committed at that
\* step; self.scores is the row of the last timestep.
C29_SlotRanking ==
    /\ \A t \in 1 .. (Len(all_scores) - 1) : \A s, r \in Slots :
          s < r => all_scores[t + 1][s] >= all_scores[t + 1][r]
    /\ \A t \in 1 .. (Len(all_scores) - 1) : \A s \in Slots :
          all_scores[t + 1][0] >= all_scores[t + 1][s]
    /\ scores = LastRow(all_scores)

\* two steps, the last with a slot 0 strictly better than the last slot
\* and both scores finite
C29_Witness ==
    /\ n_advance >= 2
    /\ beam_size >= 2
    /\ scores[0] > scores[beam_size - 1]
    /\ ~IsInf(scores[beam_size - 1])
    /\ LastRow(bookkeep)[0] # 0

\* ---------------------------------------------------------------------- C30
\* the token sequence replayed from cell (t, s), last token first
PathTokens(t, s) ==
    [j \in 1 .. (t + 1) |-> ReplayFrom(t, s)[j].tokenid]

\* C30: at every timestep t >= 1 the (backpointer, token) pairs of the
\* slots are pairwise distinct, and so are the token sequences replayed
\* from the slots; the tokens chosen by the first advance are pairwise
\* distinct.
C30_HypothesesDistinct ==
    \A t \in 1 .. Len(bookkeep) : \A s, r \in Slots :
        s # r =>
            /\ <<bookkeep[t][s], outputs[t + 1][s]>> #
                   <<bookkeep[t][r], outputs[t + 1][r]>>
            /\ PathTokens(t, s) # PathTokens(t, r)
            /\ t = 1 => outputs[t + 1][s] # outputs[t + 1][r]

\* a later step where two slots hold the same token, after different
\* predecessors
C30_Witness ==
    /\ n_advance >= 2
    /\ \E s, r \in Slots :
          /\ s # r
          /\ LastRow(outputs)[s] = LastRow(outputs)[r]
          /\ LastRow(bookkeep)[s] # LastRow(bookkeep)[r]

\* ---------------------------------------------------------------------- C31
\* the end token has the strictly highest score in every row of the matrix
EosHighest(probs) ==
    \A i \in DOMAIN probs : \A v \in DOMAIN probs[i] :
        v # EOS => probs[i][EOS] > probs[i][v]

\* the beams the claim is about: no n-gram blocking, min_n_best <= 1, a
\* vocabulary larger than the beam, advance calls alone
BoundedResponseCase ==
    /\ block_ngram = 0
    /\ min_n_best <= 1
    /\ VocSize > beam_size
    /\ ~synthesized

QueryCall ==
    \/ DoneCall
    \/ GetRescoredFinishedCall
    \/ GetHypFromFinishedCall
    \/ GetPartialHypFromTailCall
    \/ GetTopHypCall

\* C32: a call of done, get_rescored_finished, get_hyp_from_finished,
\* get_partial_hyp_from_tail or get_top_hyp leaves the parameters and every
\* field of the beam as they were; after a rescoring the records of
\* finished still carry their raw cumulative scores, the all_scores
\* entries of their cells.
C32_QueriesReadOnly ==
    [][QueryCall =>
        /\ config' = config
        /\ beam' = beam
        /\ \A k \in 1 .. Len(finished') :
              finished'[k].score =
                  all_scores'[finished'[k].timestep + 1][finished'[k].hypid]]_vars

\* a beam whose finished records have raw scores that rescoring changes,
\* and whose queries return
C32_Witness ==
    /\ n_advance >= 2
    /\ Len(finished) >= 2
    /\ GetTopHyp.err = "none"
    /\ \E k \in 1 .. Len(finished) :
          /\ finished[k].score < 0
          /\ ~QuotEq(Rescored(finished[k]).score,
                     Quot(finished[k].score, 10000))
    /\ Done

\* ---------------------------------------------------------------------- C33
\* C33: an advance call leaves the caller's matrix as it was passed, except
\* that while fewer than min_length steps are complete the end-token entry
\* of every row is overwritten with -NEAR_INF; once min_length steps are
\* complete the matrix is left unchanged, also when a row of candidate
\* scores is forced for a dead slot or a repeated n-gram.
C33_ArgumentEffect ==
    [][(n_advance' # n_advance \/ passed' # passed
                               \/ softmax_probs' # softmax_probs) =>
        /\ DOMAIN softmax_probs' = DOMAIN passed'
        /\ \A i \in DOMAIN passed' :
              /\ DOMAIN softmax_probs'[i] = DOMAIN passed'[i]
              /\ \A v \in DOMAIN passed'[i] :
                    softmax_probs'[i][v] =
                        IF Len(all_scores) - 1 < min_length /\ v = EOS
                        THEN -NEAR_INF
                        ELSE passed'[i][v]
        /\ Len(all_scores) - 1 >= min_length => softmax_probs' = passed']_vars

\* the last advance found a dead slot, whose row of candidate scores it
\* forced, and left the matrix as it was passed
C33_Witness ==
    /\ n_advance >= 2
    /\ ~synthesized
    /\ \E s \in Slots : outputs[Len(outputs) - 1][s] = EOS
    /\ softmax_probs = passed
    /\ \A i \in Slots : \A v \in Tokens : ~IsInf(softmax_probs[i][v])

====
